---- MODULE Spec2Model ----
(***************************************************************************)
(* A model of measure/network.py (MEASURE, master-equation solver for      *)
(* unimolecular reaction networks): the energy-grain builder               *)
(* Network.getEnergyGrains, the grid-bounding heuristic                    *)
(* Network.autoGenerateEnergyGrains, and the k(T,P) driver                 *)
(* Network.calculateRateCoefficients with the two assemblers it calls,     *)
(* calculateDensitiesOfStates and calculateMicrocanonicalRates.            *)
(*                                                                         *)
(* Numbers.  Energies are integers (J/mol in whole units).  A float that   *)
(* the code obtains by division is an exact rational <<n, d>> in lowest    *)
(* terms with d > 0; the IEEE results of dividing by zero are NaN and Inf. *)
(***************************************************************************)
EXTENDS Integers, Sequences, FiniteSets, TLC

VARIABLES
    net,        \* the Network: isomers, reactants, products, pathReactions
    spE0,       \* E0 of every Species object
    tsE0,       \* transitionState.E0 of every path reaction
    Elist,      \* the caller's energy grid, which calculateRateCoefficients shifts in place
    rc,         \* the frame of a calculateRateCoefficients call
    pre,        \* tsE0 and Elist as they were when the call began
    log,        \* the collaborator calls and writes of the call, in order
    eg,         \* the frame of a getEnergyGrains call
    ag,         \* the frame of an autoGenerateEnergyGrains call
    ds          \* one row shift of calculateDensitiesOfStates: raw row, r0, result

vars == <<net, spE0, tsE0, Elist, rc, pre, log, eg, ag, ds>>

(***************************************************************************)
(* Arithmetic                                                              *)
(***************************************************************************)
Abs(x) == IF x < 0 THEN -x ELSE x

Max2(a, b) == IF a < b THEN b ELSE a

\* math.ceil of the quotient a / b, b > 0
CeilDiv(a, b) == -((-a) \div b)

RECURSIVE GCD(_, _)
GCD(a, b) == IF b = 0 THEN a ELSE GCD(b, a % b)

NaN == <<0, 0>>

Inf == <<1, 0>>

\* the float n / d for d > 0, in lowest terms
Rat(n, d) == LET g == GCD(Abs(n), d) IN <<n \div g, d \div g>>

IsNum(x) == x[2] > 0

\* the product of two floats in lowest terms, reduced crosswise before the
\* multiplication
RProd(x, y) ==
    LET g1 == GCD(Abs(x[1]), y[2])
        g2 == GCD(Abs(y[1]), x[2])
    IN  Rat((x[1] \div g1) * (y[1] \div g2), (x[2] \div g2) * (y[2] \div g1))

\* float division x / y as numpy does it: 0/0 is nan, a/0 is inf (a warning, no error)
RDiv(x, y) ==
    IF ~IsNum(x) \/ ~IsNum(y) THEN NaN
    ELSE IF y[1] = 0 THEN (IF x[1] = 0 THEN NaN ELSE Inf)
    ELSE IF y[1] > 0 THEN RProd(x, <<y[2], y[1]>>)
    ELSE RProd(x, <<-y[2], -y[1]>>)

RMul(x, y) ==
    IF x = NaN \/ y = NaN THEN NaN
    ELSE IF ~IsNum(x) \/ ~IsNum(y) THEN (IF x[1] = 0 \/ y[1] = 0 THEN NaN ELSE Inf)
    ELSE RProd(x, y)

\* the sum over the least common denominator
RAdd(x, y) ==
    IF x = NaN \/ y = NaN THEN NaN
    ELSE IF ~IsNum(x) \/ ~IsNum(y) THEN Inf
    ELSE LET g == GCD(x[2], y[2])
         IN  Rat(x[1] * (y[2] \div g) + y[1] * (x[2] \div g), (x[2] \div g) * y[2])

RLess(x, y) == IsNum(x) /\ IsNum(y) /\ x[1] * y[2] < y[1] * x[2]

RECURSIVE RSum(_)
RSum(s) == IF s = <<>> THEN <<0, 1>> ELSE RAdd(Head(s), RSum(Tail(s)))

(***************************************************************************)
(* The network.  A Species is a number; a channel is the sequence of its   *)
(* species (rxn.reactants, rxn.products, an entry of Network.reactants or  *)
(* Network.products); Network.isomers is a sequence of species.            *)
(***************************************************************************)
Species == 1..7

\* the ground-state energies the species are built with
SpeciesE0 == [s \in Species |-> CASE s = 1 -> 3 [] s = 2 -> 4 [] s = 7 -> 1 [] OTHER -> 2]

\* the path reactions tried: isomerization, reversible and irreversible
\* dissociation, association, channel to channel, and a two-species channel
\* of no list that begins with an isomer
Candidates == <<
    [reactants |-> <<1>>,    products |-> <<2>>,    E0 |-> 6],
    [reactants |-> <<1>>,    products |-> <<3, 4>>, E0 |-> 7],
    [reactants |-> <<2>>,    products |-> <<5, 6>>, E0 |-> 8],
    [reactants |-> <<3, 4>>, products |-> <<2>>,    E0 |-> 5],
    [reactants |-> <<3, 4>>, products |-> <<5, 6>>, E0 |-> 9],
    [reactants |-> <<1, 7>>, products |-> <<2>>,    E0 |-> 5] >>

\* the longest pathReactions list tried
MaxPath == 2

\* Network.__init__ (lines 75-81) on two isomers, one reactant channel, one
\* product channel and the path reactions numbered in path; noStates says
\* that species 4 was built without state-counting data (states is None)
NetworkOf(path, noStates) ==
    [isomers |-> <<1, 2>>,
     reactants |-> << <<3, 4>> >>,
     products |-> << <<5, 6>> >>,
     pathReactions |-> [k \in 1..Len(path) |->
                          [reactants |-> Candidates[path[k]].reactants,
                           products |-> Candidates[path[k]].products]],
     states |-> [s \in Species |-> ~(noStates /\ s = 4)]]

\* the lists of up to MaxPath different candidates, in every order
PathLists ==
    UNION {{path \in [1..n -> 1..Len(Candidates)] :
               \A a, b \in 1..n : a # b => path[a] # path[b]} : n \in 0..MaxPath}

\* x in list / list.index(x), on sequences
In(x, list) == \E k \in 1..Len(list) : list[k] = x

Index(x, list) == CHOOSE k \in 1..Len(list) : list[k] = x /\ \A j \in 1..(k - 1) : list[j] # x

\* sum([spec.E0 for spec in channel])
RECURSIVE ChannelE0(_, _)
ChannelE0(channel, e0) ==
    IF channel = <<>> THEN 0 ELSE e0[Head(channel)] + ChannelE0(Tail(channel), e0)

\* the sum of the entries lo..hi, by halves
RECURSIVE SumRange(_, _, _)
SumRange(s, lo, hi) ==
    IF lo > hi THEN 0
    ELSE IF lo = hi THEN s[lo]
    ELSE LET mid == (lo + hi) \div 2
         IN  SumRange(s, lo, mid) + SumRange(s, mid + 1, hi)

\* the sum of the first n entries
SumTo(s, n) == SumRange(s, 1, n)

SumSeq(s) == SumTo(s, Len(s))

RECURSIVE MinSeq(_)
MinSeq(s) == IF Len(s) = 1 THEN s[1] ELSE LET m == MinSeq(Tail(s)) IN IF s[1] < m THEN s[1] ELSE m

RECURSIVE MaxSeq(_)
MaxSeq(s) == IF Len(s) = 1 THEN s[1] ELSE Max2(s[1], MaxSeq(Tail(s)))

(***************************************************************************)
(* Network.getEnergyGrains(Emin, Emax, dE, Ngrains)                        *)
(***************************************************************************)
\* the bounds of the arguments tried
MaxE == 4

MaxdE == 3

MaxNgrains == 4

\* numpy.arange(start, stop, step): ceil((stop - start) / step) points start + k*step
arange(start, stop, step) ==
    LET n == Max2(CeilDiv(stop - start, step), 0)
    IN  [k \in 1..n |-> Rat(start + (k - 1) * step, 1)]

\* numpy.linspace(start, stop, num): num points from start to stop inclusive;
\* one point is start alone
linspace(start, stop, num) ==
    IF num = 1 THEN <<Rat(start, 1)>>
    ELSE [k \in 1..num |-> Rat(start * (num - 1) + (k - 1) * (stop - start), num - 1)]

\* lines 92-105: which discretization is used, or the exception raised on the way
\* (line 104 divides by Ngrains - 1)
useGrainSize(Emin, Emax, dE, Ngrains) ==
    IF Ngrains <= 0 /\ dE <= 0 THEN "NetworkError"
    ELSE IF Ngrains <= 0 /\ dE > 0 THEN "dE"
    ELSE IF Ngrains > 0 /\ dE <= 0 THEN "Ngrains"
    ELSE IF Ngrains - 1 = 0 THEN "ZeroDivisionError"
    ELSE IF RLess(Rat(dE, 1), Rat(Emax - Emin, Ngrains - 1)) THEN "dE" ELSE "Ngrains"

\* the value of a call: [err, grid]
getEnergyGrains(Emin, Emax, dE, Ngrains) ==
    LET use == useGrainSize(Emin, Emax, dE, Ngrains)
    IN  IF use = "dE" THEN [err |-> "none", grid |-> arange(Emin, Emax + dE, dE)]
        ELSE IF use = "Ngrains" THEN [err |-> "none", grid |-> linspace(Emin, Emax, Ngrains)]
        ELSE [err |-> use, grid |-> <<>>]

\* no back end called yet
noCall == [by |-> "none", T |-> 0, P |-> 0, densStates |-> <<>>,
           fifth |-> "none", ninth |-> <<>>, args |-> <<>>]

rcIdle == [pc |-> "idle", call |-> noCall, Tlist |-> <<>>, Plist |-> <<>>, method |-> "", Emin |-> 0, dE |-> 0,
           E0 |-> <<>>, Ereac |-> <<>>, t |-> 0, p |-> 0, T |-> 0, counted |-> {},
           densStates0 |-> <<>>, shape |-> <<>>,
           densStates |-> <<>>, eqRatios |-> <<>>, rates |-> <<>>, K |-> <<>>, err |-> "none"]

preIdle == [tsE0 |-> <<>>, Elist |-> <<>>]

egIdle == [pc |-> "idle", Emin |-> 0, Emax |-> 0, dE |-> 0, Ngrains |-> 0,
           err |-> "none", grid |-> <<>>]

agIdle == [pc |-> "idle", RTmax |-> 0, grainSize |-> 0, Ngrains |-> 0, Emin |-> 0,
           isomer |-> 0, mult |-> 0, done |-> FALSE, iterCount |-> 0, Emax |-> <<0, 1>>,
           eqDist |-> <<>>, probed |-> 0, metBoth |-> FALSE, err |-> "none", grid |-> <<>>]

dsIdle == [pc |-> "idle", raw |-> <<>>, r0 |-> 0, err |-> "none", row |-> <<>>]

InitGrid ==
    /\ net = NetworkOf(<<>>, FALSE)
    /\ spE0 = SpeciesE0
    /\ tsE0 = <<>>
    /\ Elist = <<>> /\ rc = rcIdle /\ pre = preIdle /\ log = <<>>
    /\ \E Emin \in 0..1, Emax \in 0..MaxE, dE \in -1..MaxdE, Ngrains \in -1..MaxNgrains :
          eg = [pc |-> "call", Emin |-> Emin, Emax |-> Emax, dE |-> dE,
                Ngrains |-> Ngrains, err |-> "none", grid |-> <<>>]
    /\ ag = agIdle
    /\ ds = dsIdle

GetEnergyGrains ==
    /\ eg.pc = "call"
    /\ LET r == getEnergyGrains(eg.Emin, eg.Emax, eg.dE, eg.Ngrains)
       IN  eg' = [eg EXCEPT !.pc = IF r.err = "none" THEN "returned" ELSE "raised",
                            !.err = r.err, !.grid = r.grid]
    /\ UNCHANGED <<net, spE0, tsE0, Elist, rc, pre, log, ag, ds>>

NextGrid == GetEnergyGrains

SpecGrid == InitGrid /\ [][NextGrid]_vars

(***************************************************************************)
(* Network.autoGenerateEnergyGrains(Tmax, grainSize, Ngrains)              *)
(*                                                                         *)
(* ag.RTmax is constants.R * Tmax.  ag.eqDist is the trial population      *)
(* densStates * exp(-Elist / R / Tmax) of the current attempt before line  *)
(* 173 divides it by its sum: every test below is a ratio of two of its    *)
(* entries or of two of its sums, which that division leaves unchanged.    *)
(* ag.probed is the multiplier of the attempt that produced ag.eqDist, and *)
(* ag.metBoth records that some attempt met both criteria.                 *)
(***************************************************************************)
\* the number of trial grains (line 143)
nE == 251

mult0 == 50

multStep == 50

maxIter == 5

\* tol = 1e-4 = 1 / tolInv
tolInv == 10000

\* the populations a trial grain may hold: none, some, a peak
Populations == {0, 1, 5000}

\* the grains (from 1) at which the peak of a trial population may begin, and
\* a grain far above the peak
PeakStarts == {1, 4}

FarGrain == 101

\* the populations tried at the last grain: none, or as much as the peak
TailPopulations == Populations \ {1}

\* a trial population over the nE grains: a peak of b grains that begins at
\* grain a, the population v right above the peak, u at the far grain, w at
\* the last grain, and none elsewhere
population(a, b, v, u, w) ==
    [k \in 1..nE |-> IF a <= k /\ k < a + b THEN 5000
                     ELSE IF k = a + b THEN v
                     ELSE IF k = FarGrain THEN u
                     ELSE IF k = nE THEN w
                     ELSE 0]

\* what isomer.states.getDensityOfStates may give on a trial grid, weighted
Probes == {population(a, b, v, u, w) :
              a \in PeakStarts, b \in 1..2, v \in Populations \ {5000},
              u \in Populations \ {5000}, w \in TailPopulations}

\* eqDist.argmax(): the first index (from 0) of the largest entry
argmax(d) == (CHOOSE k \in 1..Len(d) :
                 /\ \A j \in 1..Len(d) : d[j] <= d[k]
                 /\ \A j \in 1..(k - 1) : d[j] < d[k]) - 1

\* line 180: eqDist[-1] / eqDist[maxIndex] < tol
tailBelowTol(d) == d[Len(d)] * tolInv < d[argmax(d) + 1]

\* lines 182-184: step r down from the last grain to the first one above tol,
\* which is the highest grain above tol between maxIndex and r, or to
\* maxIndex when there is none; [r, done]
scanTail(d, maxIndex, r) ==
    LET above == {q \in (maxIndex + 1)..r : d[q + 1] * tolInv > d[maxIndex + 1]}
    IN  IF above # {}
        THEN [r |-> CHOOSE q \in above : \A q2 \in above : q2 <= q, done |-> TRUE]
        ELSE [r |-> IF r > maxIndex THEN maxIndex ELSE r, done |-> FALSE]

\* line 187: abs(1.0 - sum(eqDist[0:r]) / sum(eqDist)) > tol
massNotCaptured(d, r) ==
    Abs(SumSeq(d) - SumTo(d, r)) * tolInv > SumSeq(d)

\* lines 147-156: the first isomer of largest E0
highestIsomer(isomers, e0) ==
    isomers[CHOOSE k \in 1..Len(isomers) :
               /\ \A j \in 1..Len(isomers) : e0[isomers[j]] <= e0[isomers[k]]
               /\ \A j \in 1..(k - 1) : e0[isomers[j]] < e0[isomers[k]]]

\* lines 195-204: the largest excess of a reactant channel or transition state
\* over the reference isomer
excessOver(isomer, Emin) ==
    LET Emax0_iso == MaxSeq(<<Emin>> \o [n \in 1..Len(net.reactants) |->
                                            ChannelE0(net.reactants[n], spE0)])
        Emax0_rxn == MaxSeq(<<Emin>> \o tsE0)
    IN  MaxSeq(<<spE0[isomer], Emax0_iso, Emax0_rxn>>) - spE0[isomer]

InitAuto ==
    /\ net = NetworkOf(<<1, 2>>, FALSE)
    /\ spE0 = SpeciesE0
    /\ tsE0 = <<6, 7>>
    /\ Elist = <<>> /\ rc = rcIdle /\ pre = preIdle /\ log = <<>>
    /\ eg = egIdle
    /\ ds = dsIdle
    /\ \E RTmax \in 1..2, grainSize \in {0, 50, 100}, Ngrains \in {0, 1, 3} :
          ag = [agIdle EXCEPT !.pc = "call", !.RTmax = RTmax,
                              !.grainSize = grainSize, !.Ngrains = Ngrains]

\* lines 139-163
AutoStart ==
    /\ ag.pc = "call"
    /\ IF ag.grainSize = 0 /\ ag.Ngrains = 0
       THEN ag' = [ag EXCEPT !.pc = "raised", !.err = "NetworkError"]
       ELSE ag' = [ag EXCEPT !.pc = "loop",
                             !.Emin = MinSeq([k \in 1..Len(net.isomers) |-> spE0[net.isomers[k]]]),
                             !.isomer = highestIsomer(net.isomers, spE0),
                             !.mult = mult0, !.done = FALSE, !.iterCount = 0]
    /\ UNCHANGED <<net, spE0, tsE0, Elist, rc, pre, log, eg, ds>>

\* lines 164-191: one pass of the while loop
AutoProbe ==
    /\ ag.pc = "loop"
    /\ ~ag.done /\ ag.iterCount < maxIter
    /\ \E d \in Probes :
          \* the same trial grid gives the same densities
          /\ (ag.iterCount > 0 /\ ag.probed = ag.mult) => d = ag.eqDist
          /\ LET Emax == spE0[ag.isomer] + ag.mult * ag.RTmax
                 trial == getEnergyGrains(0, Emax - ag.Emin, 0, nE).grid
                 maxIndex == argmax(d)
                 scan == scanTail(d, maxIndex, nE - 1)
                 tail == tailBelowTol(d)
                 lost == massNotCaptured(d, scan.r)
             IN  ag' = [ag EXCEPT
                     !.iterCount = @ + 1,
                     !.eqDist = d,
                     !.probed = ag.mult,
                     !.Emax = IF tail THEN RAdd(trial[scan.r + 1], Rat(ag.Emin, 1))
                              ELSE Rat(Emax, 1),
                     !.done = tail /\ scan.done /\ ~lost,
                     !.mult = IF tail /\ ~lost THEN @ ELSE @ + multStep,
                     !.metBoth = @ \/ (tail /\ ~lost)]
    /\ UNCHANGED <<net, spE0, tsE0, Elist, rc, pre, log, eg, ds>>

\* lines 193-210, reached when the loop ends either way
AutoFinish ==
    /\ ag.pc = "loop"
    /\ ag.done \/ ag.iterCount >= maxIter
    /\ LET Emax == RAdd(ag.Emax, Rat(excessOver(ag.isomer, ag.Emin), 1))
           r == getEnergyGrains(ag.Emin, CeilDiv(Emax[1], Emax[2]), ag.grainSize, ag.Ngrains)
       IN  ag' = [ag EXCEPT !.pc = IF r.err = "none" THEN "returned" ELSE "raised",
                            !.Emax = Emax, !.err = r.err, !.grid = r.grid]
    /\ UNCHANGED <<net, spE0, tsE0, Elist, rc, pre, log, eg, ds>>

NextAuto == AutoStart \/ AutoProbe \/ AutoFinish

SpecAuto == InitAuto /\ [][NextAuto]_vars

\* C10: a grid is returned only when some attempt met both the tail criterion
\* and the captured-mass criterion; otherwise the call ends in an error.
C10_NoGridWithoutConvergence == ag.pc = "returned" => ag.metBoth

(***************************************************************************)
(* Network.calculateDensitiesOfStates(Elist, E0)                           *)
(***************************************************************************)
\* species.states.getDensityOfStates(Elist)[k]: the state-counting
\* collaborator, a positive count that grows with the species and the energy
rho(s, E) == s + E

getDensityOfStates(s, grid) == [k \in 1..Len(grid) |-> rho(s, grid[k])]

\* states.convolve(densStates0, densStates1, Elist): the density of the pair
convolve(d0, d1) ==
    [k \in 1..Len(d0) |-> SumSeq([j \in 1..k |-> d0[j] * d1[k + 1 - j]])]

\* int(round(n / d)) for d > 0, halves away from zero
round(n, d) == IF n >= 0 THEN (2 * n + d) \div (2 * d) ELSE -((2 * (-n) + d) \div (2 * d))

\* the first index of the slice a[start:] of an array of N entries
sliceStart(start, N) == IF start >= 0 THEN (IF start < N THEN start ELSE N)
                        ELSE Max2(N + start, 0)

\* the length of the slice a[:stop] of an array of N entries
sliceStop(stop, N) == IF stop >= 0 THEN (IF stop < N THEN stop ELSE N)
                      ELSE Max2(N + stop, 0)

\* lines 236 and 247: densStates[i,r0:] = densStates0[:-r0+len(densStates0)]
\* on a row of zeros.  numpy assigns when both sides have the same length or
\* the right side has one entry (which it repeats), and raises ValueError
\* otherwise.
shiftRow(raw, r0) ==
    LET N == Len(raw)
        start == sliceStart(r0, N)
        taken == sliceStop(-r0 + N, N)
    IN  IF taken = N - start \/ taken = 1
        THEN [err |-> "none",
              row |-> [k \in 1..N |-> IF k <= start THEN 0
                                      ELSE IF taken = 1 THEN raw[1] ELSE raw[k - start]]]
        ELSE [err |-> "ValueError", row |-> [k \in 1..N |-> 0]]

\* lines 231-236 for isomer i, lines 239-249 for reactant channel n
\* (row n + Nisom): the shifted row, or the row of zeros of a channel with a
\* species that has no states
densStatesRow(i, grid, E0) ==
    LET Nisom == Len(net.isomers)
        dE == grid[2] - grid[1]
    IN  IF i <= Nisom
        THEN shiftRow(getDensityOfStates(net.isomers[i], grid), round(E0[i], dE))
        ELSE LET ch == net.reactants[i - Nisom]
             IN  IF net.states[ch[1]] /\ net.states[ch[2]]
                 THEN shiftRow(convolve(getDensityOfStates(ch[1], grid),
                                        getDensityOfStates(ch[2], grid)),
                               round(E0[i], dE))
                 ELSE [err |-> "none", row |-> [k \in 1..Len(grid) |-> 0]]

\* the species whose getDensityOfStates is called: every isomer (line 233)
\* and both species of a reactant channel that passes the test of line 240
statesCounted ==
    {net.isomers[i] : i \in 1..Len(net.isomers)} \cup
    UNION {{net.reactants[n][1], net.reactants[n][2]} :
              n \in {n \in 1..Len(net.reactants) :
                         net.states[net.reactants[n][1]] /\ net.states[net.reactants[n][2]]}}

\* the value of a call: [err, densStates], and the species counted
calculateDensitiesOfStates(grid, E0) ==
    LET rows == [i \in 1..(Len(net.isomers) + Len(net.reactants)) |-> densStatesRow(i, grid, E0)]
    IN  IF \E i \in DOMAIN rows : rows[i].err # "none"
        THEN [err |-> "ValueError", densStates |-> <<>>, counted |-> statesCounted]
        ELSE [err |-> "none", densStates |-> [i \in DOMAIN rows |-> rows[i].row],
              counted |-> statesCounted]

(***************************************************************************)
(* The row shift of lines 235-236 and 246-247 on its own: a raw row of     *)
(* 2..MaxRaw grains and a shift r0 of -MaxShift..MaxShift grid cells.      *)
(***************************************************************************)
MaxRaw == 3

MaxShift == 7

\* the raw rows tried: positive counts, as getDensityOfStates and convolve give
RawRows == UNION {[1..N -> 1..2] : N \in 2..MaxRaw}

InitShift ==
    /\ net = NetworkOf(<<>>, FALSE)
    /\ spE0 = SpeciesE0
    /\ tsE0 = <<>>
    /\ Elist = <<>> /\ rc = rcIdle /\ pre = preIdle /\ log = <<>>
    /\ eg = egIdle
    /\ ag = agIdle
    /\ \E raw \in RawRows, r0 \in -MaxShift..MaxShift :
          ds = [dsIdle EXCEPT !.pc = "call", !.raw = raw, !.r0 = r0]

\* lines 236 and 247
ShiftRow ==
    /\ ds.pc = "call"
    /\ LET r == shiftRow(ds.raw, ds.r0)
       IN  ds' = [ds EXCEPT !.pc = IF r.err = "none" THEN "returned" ELSE "raised",
                            !.err = r.err, !.row = r.row]
    /\ UNCHANGED <<net, spE0, tsE0, Elist, rc, pre, log, eg, ag>>

NextShift == ShiftRow

SpecShift == InitShift /\ [][NextShift]_vars

(***************************************************************************)
(* Network.calculateMicrocanonicalRates(Elist, densStates, T)              *)
(*                                                                         *)
(* An entry Kij[i][j] stands for the row Kij[i,j,:] over the grains, which *)
(* the code assigns whole.  A row is a row of zeros, or a row that         *)
(* calculateMicrocanonicalRateCoefficient returned: which reaction it was  *)
(* called for, which of its two results this is, the rows of densStates it *)
(* was given (0 for None) and T.  Indices count from 1.                    *)
(***************************************************************************)
zeros == [rxn |-> 0, which |-> "zeros", reacDens |-> 0, prodDens |-> 0, T |-> 0]

\* the kinetics collaborator's pair of results for path reaction k
calculateMicrocanonicalRateCoefficient(k, reacDens, prodDens, T) ==
    [forward |-> [rxn |-> k, which |-> "forward", reacDens |-> reacDens, prodDens |-> prodDens, T |-> T],
     reverse |-> [rxn |-> k, which |-> "reverse", reacDens |-> reacDens, prodDens |-> prodDens, T |-> T]]

\* lines 276-297: the branch taken for a path reaction
rxnType(rxn) ==
    IF In(rxn.reactants[1], net.isomers) /\ In(rxn.products[1], net.isomers)
    THEN "isomerization"
    ELSE IF In(rxn.reactants[1], net.isomers) /\ In(rxn.products, net.reactants)
    THEN "dissociation"
    ELSE IF In(rxn.reactants[1], net.isomers) /\ In(rxn.products, net.products)
    THEN "irreversible"
    ELSE IF In(rxn.reactants, net.reactants) /\ In(rxn.products[1], net.isomers)
    THEN "association"
    ELSE "NetworkError"

\* line 280 with the two targets exchanged
isomerizationWritesTransposed(m, reac, prod, kE) ==
    [m EXCEPT !.Kij = [[@ EXCEPT ![reac][prod] = kE.forward]
                          EXCEPT ![prod][reac] = kE.reverse]]

\* line 280: Kij[prod,reac,:], Kij[reac,prod,:] = ..., assigned left to right
isomerizationWrites(m, reac, prod, kE) ==
    [m EXCEPT !.Kij = [[@ EXCEPT ![prod][reac] = kE.forward]
                          EXCEPT ![reac][prod] = kE.reverse]]

\* line 285: Gnj[prod,reac,:], Fim[reac,prod,:] = ...
dissociationWrites(m, reac, prod, kE) ==
    [m EXCEPT !.Gnj[prod][reac] = kE.forward, !.Fim[reac][prod] = kE.reverse]

\* line 290: Gnj[prod,reac,:], dummy = ...
irreversibleWrites(m, reac, prod, kE) ==
    [m EXCEPT !.Gnj[prod][reac] = kE.forward]

\* line 295 with the two results exchanged
associationWritesExchanged(m, reac, prod, kE) ==
    [m EXCEPT !.Fim[prod][reac] = kE.reverse, !.Gnj[reac][prod] = kE.forward]

\* line 295: Fim[prod,reac,:], Gnj[reac,prod,:] = ...
associationWrites(m, reac, prod, kE) ==
    [m EXCEPT !.Fim[prod][reac] = kE.forward, !.Gnj[reac][prod] = kE.reverse]

\* lines 276-295: the tensors after path reaction k has been processed
rxnWrites(m, k, T) ==
    LET rxn == net.pathReactions[k]
        Nisom == Len(net.isomers)
        Nreac == Len(net.reactants)
        type == rxnType(rxn)
    IN  IF type = "isomerization"
        THEN LET reac == Index(rxn.reactants[1], net.isomers)
                 prod == Index(rxn.products[1], net.isomers)
                 kE == calculateMicrocanonicalRateCoefficient(k, reac, prod, T)
             IN  isomerizationWrites(m, reac, prod, kE)
        ELSE IF type = "dissociation"
        THEN LET reac == Index(rxn.reactants[1], net.isomers)
                 prod == Index(rxn.products, net.reactants)
                 kE == calculateMicrocanonicalRateCoefficient(k, reac, prod + Nisom, T)
             IN  dissociationWrites(m, reac, prod, kE)
        ELSE IF type = "irreversible"
        THEN LET reac == Index(rxn.reactants[1], net.isomers)
                 prod == Index(rxn.products, net.products) + Nreac
                 kE == calculateMicrocanonicalRateCoefficient(k, reac, 0, T)
             IN  irreversibleWrites(m, reac, prod, kE)
        ELSE IF type = "association"
        THEN LET reac == Index(rxn.reactants, net.reactants)
                 prod == Index(rxn.products[1], net.isomers)
                 kE == calculateMicrocanonicalRateCoefficient(k, reac + Nisom, prod, T)
             IN  associationWrites(m, reac, prod, kE)
        ELSE [m EXCEPT !.err = "NetworkError"]

\* lines 269-271
zeroTensors ==
    LET Nisom == Len(net.isomers)
        Nreac == Len(net.reactants)
        Nprod == Len(net.products)
    IN  [err |-> "none",
         Kij |-> [i \in 1..Nisom |-> [j \in 1..Nisom |-> zeros]],
         Gnj |-> [n \in 1..(Nreac + Nprod) |-> [j \in 1..Nisom |-> zeros]],
         Fim |-> [i \in 1..Nisom |-> [n \in 1..Nreac |-> zeros]]]

\* lines 275-297: the loop over the first k path reactions, which ends at the
\* first reaction that raises
RECURSIVE ratesUpTo(_, _)
ratesUpTo(k, T) ==
    IF k = 0 THEN zeroTensors
    ELSE LET m == ratesUpTo(k - 1, T)
         IN  IF m.err # "none" THEN m ELSE rxnWrites(m, k, T)

\* the value of a call: [err, Kij, Gnj, Fim]
calculateMicrocanonicalRates(T) == ratesUpTo(Len(net.pathReactions), T)

(***************************************************************************)
(* calculateMicrocanonicalRates on its own: the path reactions of          *)
(* Candidates and the two reactions between an isomer and the reactant     *)
(* channel written the other way round.                                    *)
(***************************************************************************)
RateCandidates == Candidates \o <<
    [reactants |-> <<3, 4>>, products |-> <<1>>,    E0 |-> 7],
    [reactants |-> <<2>>,    products |-> <<3, 4>>, E0 |-> 5] >>

RatePathLists ==
    UNION {{path \in [1..n -> 1..Len(RateCandidates)] :
               \A a, b \in 1..n : a # b => path[a] # path[b]} : n \in 0..MaxPath}

\* the temperatures tried
RateTemperatures == 1..2

InitRates ==
    /\ \E path \in RatePathLists, noStates \in BOOLEAN :
          /\ net = [NetworkOf(<<>>, noStates) EXCEPT
                       !.pathReactions = [k \in 1..Len(path) |->
                           [reactants |-> RateCandidates[path[k]].reactants,
                            products |-> RateCandidates[path[k]].products]]]
          /\ tsE0 = [k \in 1..Len(path) |-> RateCandidates[path[k]].E0]
    /\ spE0 = SpeciesE0
    /\ Elist = <<>> /\ pre = preIdle /\ log = <<>>
    /\ \E T \in RateTemperatures : rc = [rcIdle EXCEPT !.pc = "rates", !.T = T]
    /\ eg = egIdle
    /\ ag = agIdle
    /\ ds = dsIdle

\* lines 264-300
CalculateMicrocanonicalRates ==
    /\ rc.pc = "rates"
    /\ LET m == calculateMicrocanonicalRates(rc.T)
       IN  rc' = IF m.err # "none" THEN [rc EXCEPT !.pc = "raised", !.err = m.err]
                 ELSE [rc EXCEPT !.pc = "returned", !.rates = m]
    /\ UNCHANGED <<net, spE0, tsE0, Elist, pre, log, eg, ag, ds>>

NextRates == CalculateMicrocanonicalRates

SpecRates == InitRates /\ [][NextRates]_vars

(***************************************************************************)
(* Network.calculateRateCoefficients(Tlist, Plist, Elist, method)          *)
(*                                                                         *)
(* rc.t and rc.p count the temperatures and the pressures (of the current  *)
(* temperature) already done.  rc.K[t][p] stands for the matrix            *)
(* K[t,p,:,:]: zeros, or the matrix a solver back end returned.  rc.call   *)
(* holds the arguments of the last back-end call: T, P, densStates, the    *)
(* fifth argument (collFreq after the efficiency factor of line 381, or    *)
(* Mcoll of lines 389 and 397), the ninth (Ereac or eqRatios), and the     *)
(* names of the twelve variables passed, in order.                         *)
(***************************************************************************)
\* the longest Tlist and Plist tried, and the number of grains of the grid
MaxT == 2

MaxP == 2

NGrid == 3

\* the temperatures tried, in units in which Boltzmann is exact
Temperatures == <<1, 2>>

\* the temperature lists tried: the two temperatures in turn
Tlists == {[k \in 1..n |-> Temperatures[((k - 1) % 2) + 1]] : n \in 0..MaxT}

Plists == {[k \in 1..n |-> k] : n \in 0..MaxP}

\* the grids tried: NGrid grains from Emin in steps of dE, as <<Emin, dE>>
Grids == {<<0, 3>>, <<3, 1>>, <<3, 3>>, <<4, 1>>}

Methods == {"modified strong collision", "Reservoir State",
            "chemically-significant eigenvalues", "steady state"}

\* method.lower()
lower(method) == IF method = "Reservoir State" THEN "reservoir state" ELSE method

\* the 1e20 of line 329, scaled to fit 32-bit integers
EreacNone == 1000000000

RECURSIVE Pow2(_)
Pow2(n) == IF n = 0 THEN 1 ELSE 2 * Pow2(n - 1)

\* numpy.exp(-E / constants.R / T) for E >= 0 and T in Temperatures, with
\* the energy and temperature units chosen such that constants.R is
\* 1 / (2 ln 2): exp(-E / R / T) = 2^(-2 E / T), which is 1 / 4^E at T = 1
\* and 1 / 2^E at T = 2, both exact
Boltzmann(E, T) ==
    CASE T = 1 -> Rat(1, Pow2(2 * E))
      [] T = 2 -> Rat(1, Pow2(E))

\* lines 322-326
groundStateEnergies ==
    LET Nisom == Len(net.isomers)
    IN  [i \in 1..(Nisom + Len(net.reactants)) |->
            IF i <= Nisom THEN spE0[net.isomers[i]]
            ELSE ChannelE0(net.reactants[i - Nisom], spE0)]

\* lines 329-334: the lowest transition state of the path reactions whose
\* first reactant or first product is isomer i
firstReactiveGrain(i) ==
    LET adjoining == {k \in 1..Len(net.pathReactions) :
                         \/ net.pathReactions[k].reactants[1] = net.isomers[i]
                         \/ net.pathReactions[k].products[1] = net.isomers[i]}
    IN  IF \E k \in adjoining : tsE0[k] < EreacNone
        THEN CHOOSE e \in {tsE0[k] : k \in adjoining} : \A k \in adjoining : e <= tsE0[k]
        ELSE EreacNone

\* lines 338-342 and 409-411 on an array
shift(a, Emin) == [k \in 1..Len(a) |-> a[k] - Emin]

\* lines 409-411 with the sign of the shift
unshiftBySubtracting(a, Emin) == [k \in 1..Len(a) |-> a[k] - Emin]

unshift(a, Emin) == [k \in 1..Len(a) |-> a[k] + Emin]

\* line 365
equilibriumRatio(row, grid, T, dE) ==
    RMul(RSum([k \in 1..Len(row) |-> RMul(Rat(row[k], 1), Boltzmann(grid[k], T))]), Rat(dE, 1))

\* line 366
rescaledRow(row, eqRatio, dE) ==
    [k \in 1..Len(row) |-> RMul(RDiv(Rat(row[k], 1), eqRatio), Rat(dE, 1))]

\* lines 378-402 with the first back end for every recognized name
backEndAlwaysFirst(method) ==
    IF lower(method) \in {"modified strong collision", "reservoir state",
                          "chemically-significant eigenvalues"} THEN "msc"
    ELSE "NetworkError"

\* lines 378-402: the back end a method name selects
backEnd(method) ==
    IF lower(method) = "modified strong collision" THEN "msc"
    ELSE IF lower(method) = "reservoir state" THEN "rs"
    ELSE IF lower(method) = "chemically-significant eigenvalues" THEN "cse"
    ELSE "NetworkError"

noMatrix == [by |-> "zeros", T |-> 0, P |-> 0]

\* lines 384, 392 and 400: the arguments the back end is called with
backEndCall(by, T, P) ==
    [by |-> by, T |-> T, P |-> P, densStates |-> rc.densStates,
     fifth |-> IF by = "msc" THEN "collFreq * collisionEfficiency"
               ELSE "collFreq * collisionMatrix",
     ninth |-> IF by = "cse" THEN rc.eqRatios
               ELSE [i \in 1..Len(rc.Ereac) |-> Rat(rc.Ereac[i], 1)],
     args |-> <<"T", "P", "Elist", "densStates",
                IF by = "msc" THEN "collFreq" ELSE "Mcoll",
                "Kij", "Fim", "Gnj",
                IF by = "cse" THEN "eqRatios" ELSE "Ereac",
                "Nisom", "Nreac", "Nprod">>]

Event(ev, t, p, by) == [ev |-> ev, t |-> t, p |-> p, by |-> by]

InitRate ==
    /\ \E path \in PathLists, noStates \in BOOLEAN :
          /\ net = NetworkOf(path, noStates)
          /\ tsE0 = [k \in 1..Len(path) |-> Candidates[path[k]].E0]
    /\ spE0 = SpeciesE0
    /\ \E g \in Grids : Elist = [k \in 1..NGrid |-> g[1] + (k - 1) * g[2]]
    /\ \E Tlist \in Tlists, Plist \in Plists, method \in Methods :
          rc = [rcIdle EXCEPT !.pc = "call", !.Tlist = Tlist, !.Plist = Plist, !.method = method]
    /\ pre = [tsE0 |-> tsE0, Elist |-> Elist]
    /\ log = <<>>
    /\ eg = egIdle
    /\ ag = agIdle
    /\ ds = dsIdle

\* lines 312-342: the counters, E0, Ereac, and the shift by Emin = Elist[0]
Prepare ==
    /\ rc.pc = "call"
    /\ LET Emin == Elist[1]
       IN  /\ tsE0' = shift(tsE0, Emin)
           /\ Elist' = shift(Elist, Emin)
           /\ rc' = [rc EXCEPT !.pc = "dos", !.Emin = Emin, !.dE = Elist[2] - Elist[1],
                               !.E0 = shift(groundStateEnergies, Emin),
                               !.Ereac = shift([i \in 1..Len(net.isomers) |-> firstReactiveGrain(i)], Emin)]
    /\ log' = Append(log, Event("shift", 0, 0, ""))
    /\ UNCHANGED <<net, spE0, pre, eg, ag, ds>>

\* lines 346-348
DensitiesOfStates ==
    /\ rc.pc = "dos"
    /\ LET r == calculateDensitiesOfStates(Elist, rc.E0)
       IN  rc' = IF r.err # "none" THEN [rc EXCEPT !.pc = "raised", !.err = r.err]
                 ELSE [rc EXCEPT !.pc = "temperature", !.densStates0 = r.densStates,
                                 !.counted = r.counted,
                                 !.shape = LET N == Len(net.isomers) + Len(net.reactants) + Len(net.products)
                                           IN  <<Len(rc.Tlist), Len(rc.Plist), N, N>>,
                                 !.K = [t \in 1..Len(rc.Tlist) |-> [p \in 1..Len(rc.Plist) |-> noMatrix]]]
    /\ log' = Append(log, Event("densities", 0, 0, ""))
    /\ UNCHANGED <<net, spE0, tsE0, Elist, pre, eg, ag, ds>>

\* lines 350-366: the next temperature, its rates and its rescaling
Temperature ==
    /\ rc.pc = "temperature"
    /\ rc.t < Len(rc.Tlist)
    /\ LET T == rc.Tlist[rc.t + 1]
           m == calculateMicrocanonicalRates(T)
           eqRatios == [i \in 1..Len(rc.densStates0) |->
                           equilibriumRatio(rc.densStates0[i], Elist, T, rc.dE)]
       IN  IF m.err # "none"
           THEN /\ rc' = [rc EXCEPT !.pc = "raised", !.err = m.err]
                /\ log' = Append(log, Event("rates", rc.t + 1, 0, ""))
           ELSE /\ rc' = [rc EXCEPT
                      !.T = T, !.rates = m, !.eqRatios = eqRatios,
                      !.densStates = [i \in 1..Len(rc.densStates0) |->
                                         rescaledRow(rc.densStates0[i], eqRatios[i], rc.dE)],
                      !.p = 0,
                      !.t = IF Len(rc.Plist) = 0 THEN @ + 1 ELSE @,
                      !.pc = IF Len(rc.Plist) = 0 THEN "temperature" ELSE "pressure"]
                /\ log' = log \o <<Event("rates", rc.t + 1, 0, ""), Event("rescale", rc.t + 1, 0, "")>>
    /\ UNCHANGED <<net, spE0, tsE0, Elist, pre, eg, ag, ds>>

\* lines 368-406: the next pressure, the collision frequencies and the back end
Pressure ==
    /\ rc.pc = "pressure"
    /\ LET t == rc.t + 1
           p == rc.p + 1
           by == backEnd(rc.method)
           last == p = Len(rc.Plist)
       IN  IF by = "NetworkError"
           THEN /\ rc' = [rc EXCEPT !.pc = "raised", !.err = "NetworkError"]
                /\ log' = log
           ELSE /\ rc' = [rc EXCEPT
                      !.call = backEndCall(by, rc.Tlist[t], rc.Plist[p]),
                      !.K[t][p] = [by |-> by, T |-> rc.Tlist[t], P |-> rc.Plist[p]],
                      !.p = IF last THEN 0 ELSE p,
                      !.t = IF last THEN t ELSE @,
                      !.pc = IF last THEN "temperature" ELSE "pressure"]
                /\ log' = log \o <<Event("solver", t, p, by), Event("write", t, p, by)>>
    /\ UNCHANGED <<net, spE0, tsE0, Elist, pre, eg, ag, ds>>

\* a collaborator raises: the state counting of line 233, 242 or 243, the
\* kinetics of lines 280-295, calculateCollisionFrequency of line 375 (which
\* runs before the method name is tested), the collision model of lines
\* 381-397 or the back end of line 384, 392 or 400
CollaboratorRaises ==
    /\ \/ rc.pc = "dos"
       \/ rc.pc = "temperature" /\ rc.t < Len(rc.Tlist) /\ Len(net.pathReactions) > 0
       \/ rc.pc = "pressure"
    /\ rc' = [rc EXCEPT !.pc = "raised", !.err = "CollaboratorError"]
    /\ UNCHANGED <<net, spE0, tsE0, Elist, pre, log, eg, ag, ds>>

\* lines 408-413
Unshift ==
    /\ rc.pc = "temperature"
    /\ rc.t = Len(rc.Tlist)
    /\ tsE0' = unshift(tsE0, rc.Emin)
    /\ Elist' = unshift(Elist, rc.Emin)
    /\ rc' = [rc EXCEPT !.pc = "returned"]
    /\ log' = Append(log, Event("unshift", 0, 0, ""))
    /\ UNCHANGED <<net, spE0, pre, eg, ag, ds>>

Next == Prepare \/ DensitiesOfStates \/ Temperature \/ Pressure \/ CollaboratorRaises \/ Unshift

Spec == InitRate /\ [][Next]_vars

(***************************************************************************)
(* Claims about calculateRateCoefficients                                  *)
(***************************************************************************)
rcDone == rc.pc \in {"returned", "raised"}

Count(ev) == Cardinality({n \in 1..Len(log) : log[n].ev = ev})

\* C1: when the call ends in an exception after the shift, every
\* transitionState.E0 and every grain of the caller's grid hold the values
\* they had before the call.
C1_RestoredOnFailure ==
    rc.pc = "raised" => (tsE0 = pre.tsE0 /\ Elist = pre.Elist)

\* C2: when the call returns, every transitionState.E0 and every grain of the
\* caller's grid equal their values before the call, after one shift and one
\* unshift; and no species' E0 differs from the one it was built with in any
\* state of the call.
C2_RestoredOnReturn ==
    /\ spE0 = SpeciesE0
    /\ rc.pc = "returned" =>
          /\ tsE0 = pre.tsE0
          /\ Elist = pre.Elist
          /\ Count("shift") = 1
          /\ Count("unshift") = 1

\* a call that returned after shifting a grid that did not start at zero,
\* with path reactions and with back-end calls made
C2_Witness ==
    /\ rc.pc = "returned"
    /\ rc.Emin # 0
    /\ Len(tsE0) > 0
    /\ Count("solver") > 0

\* C3: a call whose method is none of the three names, compared in lower
\* case, ends in a NetworkError and returns no rate tensor, whatever Tlist and
\* Plist are (a failure of the density-of-states assembly or of a
\* collaborator that comes first ends the call with that exception).
C3_UnknownMethodRaises ==
    (backEnd(rc.method) = "NetworkError" /\ rcDone) =>
        /\ rc.pc = "raised"
        /\ rc.err \in {"NetworkError", "ValueError", "CollaboratorError"}

(***************************************************************************)
(* Claims about calculateMicrocanonicalRates                               *)
(***************************************************************************)
\* the tensors of the last call that returned
ratesReturned == rc.rates # <<>>

PathIndices == 1..Len(net.pathReactions)

isIsomer(channel) == Len(channel) = 1 /\ In(channel[1], net.isomers)

\* the slots of a tensor that hold a row returned for path reaction k
slotsOf(k, tensor) ==
    {s \in (DOMAIN tensor) \X (DOMAIN tensor[1]) : tensor[s[1]][s[2]].rxn = k}

\* the slot a branch assigns for path reaction k: [tensor, row, col, which]
\* (section 4.3 of the specification, one line per branch)
target(tensor, row, col, which) == [tensor |-> tensor, row |-> row, col |-> col, which |-> which]

targets(k) ==
    LET rxn == net.pathReactions[k]
        type == rxnType(rxn)
        iso(ch) == Index(ch[1], net.isomers)
    IN  IF type = "isomerization"
        THEN {target("Kij", iso(rxn.products), iso(rxn.reactants), "forward"),
              target("Kij", iso(rxn.reactants), iso(rxn.products), "reverse")}
        ELSE IF type = "dissociation"
        THEN {target("Gnj", Index(rxn.products, net.reactants), iso(rxn.reactants), "forward"),
              target("Fim", iso(rxn.reactants), Index(rxn.products, net.reactants), "reverse")}
        ELSE IF type = "irreversible"
        THEN {target("Gnj", Index(rxn.products, net.products) + Len(net.reactants),
                     iso(rxn.reactants), "forward")}
        ELSE IF type = "association"
        THEN {target("Fim", iso(rxn.products), Index(rxn.reactants, net.reactants), "forward"),
              target("Gnj", Index(rxn.reactants, net.reactants), iso(rxn.products), "reverse")}
        ELSE {}

\* every entry of a tensor is zeros or the row that a path reaction's branch
\* assigns to that slot
onlyTargetsWritten(name, tensor) ==
    \A a \in DOMAIN tensor : \A b \in DOMAIN tensor[a] :
        \/ tensor[a][b] = zeros
        \/ \E k \in PathIndices :
              /\ tensor[a][b].rxn = k
              /\ target(name, a, b, tensor[a][b].which) \in targets(k)

\* no later path reaction assigns the slot
lastAt(k, name, a, b) ==
    \A k2 \in PathIndices : k2 > k => \A tg \in targets(k2) :
        ~(tg.tensor = name /\ tg.row = a /\ tg.col = b)

\* C4: in the tensors returned, a path reaction from isomer j to isomer i has
\* its forward row in Kij[i][j] and its reverse row in Kij[j][i] (where no
\* later reaction assigned the slot) and no row anywhere else; a path reaction
\* from isomer j to product channel n has its row in Gnj[n + Nreac][j] and
\* nowhere else; and every entry that no path reaction assigns is zeros.
C4_SlotsWritten ==
    ratesReturned =>
        /\ \A k \in PathIndices :
              LET rxn == net.pathReactions[k]
                  m == rc.rates
              IN  /\ (isIsomer(rxn.reactants) /\ isIsomer(rxn.products)) =>
                        LET j == Index(rxn.reactants[1], net.isomers)
                            i == Index(rxn.products[1], net.isomers)
                        IN  /\ slotsOf(k, m.Gnj) = {}
                            /\ slotsOf(k, m.Fim) = {}
                            /\ slotsOf(k, m.Kij) \subseteq {<<i, j>>, <<j, i>>}
                            /\ m.Kij[i][j] # zeros /\ m.Kij[j][i] # zeros
                            /\ lastAt(k, "Kij", i, j) =>
                                  (m.Kij[i][j].rxn = k /\ m.Kij[i][j].which = "forward")
                            /\ lastAt(k, "Kij", j, i) =>
                                  (m.Kij[j][i].rxn = k /\ m.Kij[j][i].which = "reverse")
                  /\ (isIsomer(rxn.reactants) /\ In(rxn.products, net.products)) =>
                        LET j == Index(rxn.reactants[1], net.isomers)
                            n == Index(rxn.products, net.products)
                        IN  /\ slotsOf(k, m.Kij) = {}
                            /\ slotsOf(k, m.Fim) = {}
                            /\ slotsOf(k, m.Gnj) \subseteq {<<n + Len(net.reactants), j>>}
                            /\ m.Gnj[n + Len(net.reactants)][j] # zeros
                            /\ lastAt(k, "Gnj", n + Len(net.reactants), j) =>
                                  /\ m.Gnj[n + Len(net.reactants)][j].rxn = k
                                  /\ m.Gnj[n + Len(net.reactants)][j].which = "forward"
        /\ onlyTargetsWritten("Kij", rc.rates.Kij)
        /\ onlyTargetsWritten("Gnj", rc.rates.Gnj)
        /\ onlyTargetsWritten("Fim", rc.rates.Fim)

\* tensors returned for a network with an isomerization and an irreversible
\* dissociation
C4_Witness ==
    /\ ratesReturned
    /\ \E k \in PathIndices :
          isIsomer(net.pathReactions[k].reactants) /\ isIsomer(net.pathReactions[k].products)
    /\ \E k \in PathIndices :
          isIsomer(net.pathReactions[k].reactants) /\ In(net.pathReactions[k].products, net.products)

\* the kind of a channel, judged on the whole channel
channelKind(channel) ==
    IF isIsomer(channel) THEN "isomer"
    ELSE IF In(channel, net.reactants) THEN "reactants"
    ELSE IF In(channel, net.products) THEN "products"
    ELSE "none"

allowedTopology(rxn) ==
    <<channelKind(rxn.reactants), channelKind(rxn.products)>> \in
        {<<"isomer", "isomer">>, <<"isomer", "reactants">>,
         <<"isomer", "products">>, <<"reactants", "isomer">>}

\* C5: calculateMicrocanonicalRates returns tensors only when every path
\* reaction is isomer to isomer, isomer to reactant channel, isomer to product
\* channel or reactant channel to isomer, judged on the whole channels.
C5_OtherTopologyRaises ==
    ratesReturned => \A k \in PathIndices : allowedTopology(net.pathReactions[k])

(***************************************************************************)
(* Claims about the rescaling and the rows without state data              *)
(***************************************************************************)
\* a back end has been called: rc.call.densStates are the rows it was handed
called == rc.call.by # "none"

Rows == 1..Len(rc.densStates0)

nonzeroRow(i) == \E k \in 1..Len(rc.densStates0[i]) : rc.densStates0[i][k] # 0

\* the shifted grid, on which the rows were rescaled
shiftedGrid == shift(pre.Elist, rc.Emin)

\* sum(densStates[i,:] * exp(-Elist / R / T)) on the rows handed to the back end
boltzmannSum(i) ==
    RSum([k \in 1..Len(Elist) |->
             RMul(rc.call.densStates[i][k], Boltzmann(shiftedGrid[k], rc.call.T))])

\* C6: every rescaled row handed to a back end that is not all zeros before
\* the rescaling integrates to one under the Boltzmann weight:
\* sum(density * w) * dE = 1, for every grid spacing dE.
C6_IntegralIsOne ==
    called => \A i \in Rows : nonzeroRow(i) => RMul(boltzmannSum(i), Rat(rc.dE, 1)) = <<1, 1>>

\* the rows of the reactant channels with a species that has no state data
rowsWithoutStates ==
    {Len(net.isomers) + n : n \in {n \in 1..Len(net.reactants) :
        ~net.states[net.reactants[n][1]] \/ ~net.states[net.reactants[n][2]]}}

\* C7: for a reactant channel with a species that has no state data, no
\* density-of-states call is made for its species, its row of densStates0 is
\* all zeros, and the row handed to a back end after the rescaling is still
\* all zeros.
C7_ZeroDensityRow ==
    \A i \in rowsWithoutStates :
        /\ rc.densStates0 # <<>> =>
              /\ \A k \in 1..Len(Elist) : rc.densStates0[i][k] = 0
              /\ \A s \in {net.reactants[i - Len(net.isomers)][1],
                           net.reactants[i - Len(net.isomers)][2]} : s \notin rc.counted
        /\ called => \A k \in 1..Len(Elist) : rc.call.densStates[i][k] = <<0, 1>>

(***************************************************************************)
(* Claims about getEnergyGrains                                            *)
(***************************************************************************)
StrictlyAscending(g) == \A k \in 1..(Len(g) - 1) : RLess(g[k], g[k + 1])

egDone == eg.pc \in {"returned", "raised"}

\* C8: neither dE nor Ngrains positive is a NetworkError; exactly one positive
\* is the one used; with both positive a grid is returned that is the
\* spacing grid or the count grid and has at least as many points as either,
\* for every positive pair, Ngrains = 1 included.
C8_FinerDiscretizationWins ==
    egDone =>
        LET byGrainSize == arange(eg.Emin, eg.Emax + eg.dE, eg.dE)
            byNgrains == linspace(eg.Emin, eg.Emax, eg.Ngrains)
        IN  /\ (eg.Ngrains <= 0 /\ eg.dE <= 0) => eg.err = "NetworkError"
            /\ (eg.Ngrains <= 0 /\ eg.dE > 0) => (eg.err = "none" /\ eg.grid = byGrainSize)
            /\ (eg.Ngrains > 0 /\ eg.dE <= 0) => (eg.err = "none" /\ eg.grid = byNgrains)
            /\ (eg.Ngrains > 0 /\ eg.dE > 0) =>
                  /\ eg.err = "none"
                  /\ eg.grid \in {byGrainSize, byNgrains}
                  /\ Len(eg.grid) >= Len(byGrainSize)
                  /\ Len(eg.grid) >= Len(byNgrains)

\* C9: for Emin < Emax every returned grid is strictly ascending, starts at
\* Emin and ends at or above Emax.
C9_GridCoversRange ==
    (eg.pc = "returned" /\ eg.Emin < eg.Emax) =>
        /\ Len(eg.grid) >= 1
        /\ StrictlyAscending(eg.grid)
        /\ eg.grid[1] = Rat(eg.Emin, 1)
        /\ ~RLess(eg.grid[Len(eg.grid)], Rat(eg.Emax, 1))

(***************************************************************************)
(* Claims about calculateDensitiesOfStates                                 *)
(***************************************************************************)
dsDone == ds.pc \in {"returned", "raised"}

\* the row the shift by r0 cells should give: raw moved r0 cells to the
\* right, zero where no raw entry lands, entries moved off the row dropped
alignedRow(raw, r0) ==
    [k \in 1..Len(raw) |-> IF 1 <= k - r0 /\ k - r0 <= Len(raw) THEN raw[k - r0] ELSE 0]

\* C11: for every integer shift r0 (zero, negative, or past the end of the
\* row) the shift of a raw row ends without error and the output row has
\* out[k] = raw[k - r0] where 0 <= k - r0 <= N-1 and zero elsewhere.
C11_ShiftedRow ==
    dsDone => (ds.err = "none" /\ ds.row = alignedRow(ds.raw, ds.r0))

(***************************************************************************)
(* Claims about calculateMicrocanonicalRates                               *)
(***************************************************************************)
\* path reaction k is written from isomer to reactant channel
writtenAsDissociation(k) ==
    /\ isIsomer(net.pathReactions[k].reactants)
    /\ In(net.pathReactions[k].products, net.reactants)

\* path reaction k is written from reactant channel to isomer
writtenAsAssociation(k) ==
    /\ In(net.pathReactions[k].reactants, net.reactants)
    /\ isIsomer(net.pathReactions[k].products)

\* the isomer and the reactant channel a path reaction lies between
isomerOf(k) ==
    IF writtenAsDissociation(k) THEN Index(net.pathReactions[k].reactants[1], net.isomers)
    ELSE Index(net.pathReactions[k].products[1], net.isomers)

channelOf(k) ==
    IF writtenAsDissociation(k) THEN Index(net.pathReactions[k].products, net.reactants)
    ELSE Index(net.pathReactions[k].reactants, net.reactants)

\* no later path reaction lies between the same isomer and channel
lastBetween(k) ==
    \A k2 \in PathIndices :
        (k2 > k /\ (writtenAsDissociation(k2) \/ writtenAsAssociation(k2))) =>
            ~(isomerOf(k2) = isomerOf(k) /\ channelOf(k2) = channelOf(k))

\* the row the collaborator returns for path reaction k in the direction
\* isomer to channel (toChannel) or channel to isomer, when it is given the
\* density row of the reaction's reactant side first and of its product side
\* second
expectedRow(k, toChannel) ==
    LET i == isomerOf(k)
        n == channelOf(k) + Len(net.isomers)
        dis == writtenAsDissociation(k)
    IN  [rxn |-> k,
         which |-> IF dis = toChannel THEN "forward" ELSE "reverse",
         reacDens |-> IF dis THEN i ELSE n,
         prodDens |-> IF dis THEN n ELSE i,
         T |-> rc.T]

\* C12: a path reaction between isomer i and reactant channel n, written as
\* i -> n or as n -> i, has rows only in Gnj[n][i] and Fim[i][n] and none in
\* Kij; Gnj[n][i] holds the collaborator's rate for the direction isomer to
\* channel and Fim[i][n] its rate for the direction channel to isomer (where
\* no later reaction between the two assigned them); and the collaborator was
\* given the density row of the reaction's reactant side first and of its
\* product side second.
C12_SameSlotsEitherWay ==
    ratesReturned =>
        \A k \in PathIndices :
            (writtenAsDissociation(k) \/ writtenAsAssociation(k)) =>
                LET i == isomerOf(k)
                    n == channelOf(k)
                    m == rc.rates
                IN  /\ slotsOf(k, m.Kij) = {}
                    /\ slotsOf(k, m.Gnj) \subseteq {<<n, i>>}
                    /\ slotsOf(k, m.Fim) \subseteq {<<i, n>>}
                    /\ m.Gnj[n][i] # zeros /\ m.Fim[i][n] # zeros
                    /\ lastBetween(k) =>
                          /\ m.Gnj[n][i] = expectedRow(k, TRUE)
                          /\ m.Fim[i][n] = expectedRow(k, FALSE)

\* tensors returned for a network with a dissociation and, after it, the
\* association between the same isomer and channel
C12_Witness ==
    /\ ratesReturned
    /\ \E k1, k2 \in PathIndices :
          /\ k1 < k2
          /\ writtenAsDissociation(k1) /\ writtenAsAssociation(k2)
          /\ isomerOf(k1) = isomerOf(k2) /\ channelOf(k1) = channelOf(k2)

(***************************************************************************)
(* Claims about the order of the steps of calculateRateCoefficients        *)
(***************************************************************************)
\* the back end a recognized method name stands for, matched ignoring case
namedBackEnd ==
    CASE lower(rc.method) = "modified strong collision" -> "msc"
      [] lower(rc.method) = "reservoir state" -> "rs"
      [] lower(rc.method) = "chemically-significant eigenvalues" -> "cse"
      [] OTHER -> "none"

recognized == namedBackEnd # "none"

\* one solver call and one write of K[t,p,:,:] for each of the first p pressures
RECURSIVE pressureEvents(_, _)
pressureEvents(t, p) ==
    IF p = 0 THEN <<>>
    ELSE pressureEvents(t, p - 1) \o
         <<Event("solver", t, p, namedBackEnd), Event("write", t, p, namedBackEnd)>>

\* for each of the first t temperatures: the rates, the rescaling, then the
\* pressures
RECURSIVE temperatureEvents(_)
temperatureEvents(t) ==
    IF t = 0 THEN <<>>
    ELSE temperatureEvents(t - 1) \o
         <<Event("rates", t, 0, ""), Event("rescale", t, 0, "")>> \o
         pressureEvents(t, Len(rc.Plist))

\* the events of a whole call, in order
expectedEvents ==
    <<Event("shift", 0, 0, ""), Event("densities", 0, 0, "")>> \o
    temperatureEvents(Len(rc.Tlist)) \o
    <<Event("unshift", 0, 0, "")>>

isPrefix(a, b) == Len(a) <= Len(b) /\ \A n \in 1..Len(a) : a[n] = b[n]

\* C13: in a call with a recognized method name (matched ignoring case) the
\* events so far are always the beginning of: the shift, the densities of
\* states, then for each temperature one rate assembly and one rescaling
\* followed by one call of the named back end and one write of K[t,p,:,:]
\* for each pressure, then the unshift; a call that returns has made all of
\* them, every K[t,p,:,:] holds the matrix of the named back end, and K has
\* shape len(Tlist) x len(Plist) x N x N with N = Nisom + Nreac + Nprod.
C13_StepsInOrder ==
    (recognized /\ rc.pc # "idle") =>
        /\ isPrefix(log, expectedEvents)
        /\ rc.pc = "returned" =>
              /\ log = expectedEvents
              /\ rc.shape = <<Len(rc.Tlist), Len(rc.Plist),
                              Len(net.isomers) + Len(net.reactants) + Len(net.products),
                              Len(net.isomers) + Len(net.reactants) + Len(net.products)>>
              /\ Len(rc.K) = Len(rc.Tlist)
              /\ \A t \in 1..Len(rc.Tlist) :
                    /\ Len(rc.K[t]) = Len(rc.Plist)
                    /\ \A p \in 1..Len(rc.Plist) :
                          rc.K[t][p] = [by |-> namedBackEnd, T |-> rc.Tlist[t], P |-> rc.Plist[p]]

\* a call that returned for two temperatures and two pressures with the
\* method name in mixed case
C13_Witness ==
    /\ rc.pc = "returned"
    /\ rc.method = "Reservoir State"
    /\ Len(rc.Tlist) = 2 /\ Len(rc.Plist) = 2
    /\ Len(log) = 15

(***************************************************************************)
(* Claims about the arguments of the back ends                             *)
(***************************************************************************)
\* the shifted reactive-energy vector, as the floats a back end receives
EreacVector == [i \in 1..Len(rc.Ereac) |-> Rat(rc.Ereac[i], 1)]

passed(name) == \E a \in 1..Len(rc.call.args) : rc.call.args[a] = name

\* C14: every back-end call has the reactive-energy vector Ereac as its
\* ninth argument; the modified-strong-collision back end has as its fifth
\* the collision frequencies multiplied by the collision efficiency, the
\* reservoir-state and the chemically-significant-eigenvalues back ends the
\* matrices frequency x transfer matrix without efficiency factor; and the
\* chemically-significant-eigenvalues back end is passed the equilibrium
\* ratios in addition to the reactive-energy vector.
C14_OneArgumentContract ==
    called =>
        /\ rc.call.args[9] = "Ereac"
        /\ rc.call.ninth = EreacVector
        /\ rc.call.by = "msc" =>
              (rc.call.args[5] = "collFreq" /\ rc.call.fifth = "collFreq * collisionEfficiency")
        /\ rc.call.by \in {"rs", "cse"} =>
              (rc.call.args[5] = "Mcoll" /\ rc.call.fifth = "collFreq * collisionMatrix")
        /\ rc.call.by = "cse" => (passed("Ereac") /\ passed("eqRatios"))

(***************************************************************************)
(* Claims about the first reactive grain                                   *)
(***************************************************************************)
\* the path reactions that have isomer i itself, a channel of one species,
\* as their reactant or their product
adjoining(i) ==
    {k \in PathIndices : \/ net.pathReactions[k].reactants = <<net.isomers[i]>>
                         \/ net.pathReactions[k].products = <<net.isomers[i]>>}

prepared == rc.pc \notin {"idle", "call", "rates"}

\* C15: once the energies are shifted, Ereac[i] is the lowest
\* transitionState.E0 (as it was before the call) of the path reactions that
\* have isomer i itself as their reactant or their product, minus Emin; for
\* an isomer with no such path reaction it is the sentinel 1e20 minus Emin,
\* which is larger than every energy of the shifted grid.
C15_LowestAdjoiningBarrier ==
    prepared =>
        \A i \in 1..Len(net.isomers) :
            IF adjoining(i) = {}
            THEN /\ rc.Ereac[i] = EreacNone - rc.Emin
                 /\ \A g \in 1..Len(shiftedGrid) : rc.Ereac[i] > shiftedGrid[g]
            ELSE /\ \E k \in adjoining(i) : rc.Ereac[i] = pre.tsE0[k] - rc.Emin
                 /\ \A k \in adjoining(i) : rc.Ereac[i] <= pre.tsE0[k] - rc.Emin

====
